---- MODULE Spec2Model ----
(***************************************************************************)
(* Model of Fractal/fractals.py: the escape-time kernels (mandelbrot,      *)
(* julia), the grid sampler (generate_fractal), the threshold clamp and    *)
(* colour-bar bookkeeping of plot_fractal, and the widget callbacks wired  *)
(* by show().                                                              *)
(*                                                                         *)
(* Colour bar.  The model records the calls plot_fractal makes on the      *)
(* plotting library: which array the colour bar's mappable holds, and the  *)
(* limits set_clim put on the image that was the mappable before           *)
(* update_normal replaced it.  The limits the colour bar then shows are    *)
(* those of the new image's norm, which imshow scales to the data; they    *)
(* are the library's business and are not (0, k).                          *)
(*                                                                         *)
(* Numbers.  A complex number is a pair <<re, im>> of integers.  All the   *)
(* inputs the model draws are Gaussian integers, on which the program's    *)
(* double-precision arithmetic (z**2 + c, abs(z) > 2) is exact, so the     *)
(* operators below compute what the program computes.                      *)
(*                                                                         *)
(* Zoom.  The zoom exponent is kept in units of ln 2: the model's value e  *)
(* stands for the float e*ln(2), for which np.exp gives exactly 2^e, and   *)
(* division by a power of two is exact.  The view bounds are chosen so     *)
(* that every grid coordinate is an integer.                               *)
(*                                                                         *)
(* Optional values (threshold, colour-bar limits, the parameters of the    *)
(* last rendering, a kernel result not yet computed) are sequences of      *)
(* length 0 (None) or 1.                                                   *)
(***************************************************************************)
EXTENDS Integers, Sequences, FiniteSets, TLC

\* ------------------------------------------------------------------ bounds
\* kernel probes: coordinates of the probed points lie in -MaxCoord..MaxCoord
MaxCoord == 2
\* kernel probes: iteration caps up to MaxK (and the degenerate caps -1, 0)
MaxK == 5
\* the iteration slider is moved over its first MaxSliderStep+1 positions
MaxSliderStep == 2

\* ------------------------------------------------- constants of the program
\* Slider(self._ax_iters, 'Iterations', 1, 500, valinit=self._k, valstep=5)
SliderIterMin == 1
SliderIterMax == 500
SliderIterStep == 5
\* the divergence test abs(z) > 2
EscapeRadius == 2

VARIABLES
    x_min, x_max, y_min, y_max,   \* self._x_min .. self._y_max
    n,                            \* self._n
    k,                            \* self._k
    zoom,                         \* self._zoom (units of ln 2)
    c,                            \* self._c
    fractal_type,                 \* self._fractal_type
    threshold,                    \* self._threshold: <<>> is None
    cbar,                         \* self._cbar: "None" or "colorbar"
    mappable,                     \* <<>>, or <<the array of self._cbar.mappable>>
    prev_clim,                    \* <<>>, or the limits set_clim last put on a superseded image
    field,                        \* the array generate_fractal last returned
    image,                        \* the array last handed to imshow
    rendered,                     \* <<>>, or <<[k, zoom]>> read by the last rendering
    failure,                      \* "none", or the exception that ended show()
    phase,                        \* "constructed", "shown" (callbacks wired), "failed", "idle"
    lastOp,                       \* the method that ran last
    k0,                           \* the k the constructor was given
    probe                         \* a direct kernel call: arguments and results

selfvars == <<x_min, x_max, y_min, y_max, n, c, fractal_type, threshold>>
plotvars == <<field, image, rendered, cbar, mappable, prev_clim>>
uivars == <<x_min, x_max, y_min, y_max, n, k, zoom, c, fractal_type, threshold,
            cbar, mappable, prev_clim, field, image, rendered, failure, phase, lastOp, k0>>
vars == <<x_min, x_max, y_min, y_max, n, k, zoom, c, fractal_type, threshold,
          cbar, mappable, prev_clim, field, image, rendered, failure, phase, lastOp, k0, probe>>

\* ------------------------------------------------------ complex arithmetic
\* z**2 for z = a + bj
CSqr(z) == <<z[1] * z[1] - z[2] * z[2], 2 * z[1] * z[2]>>

\* z + w
CAdd(z, w) == <<z[1] + w[1], z[2] + w[2]>>

\* abs(z) > 2, compared on the squares
AbsGt2(z) == z[1] * z[1] + z[2] * z[2] > EscapeRadius * EscapeRadius

\* ----------------------------------------------------------------- kernels
\* for i in range(k): z = z**2 + c; if abs(z) > 2: return i  ...  return k
RECURSIVE mandelbrot_loop(_, _, _, _)
mandelbrot_loop(z, cc, i, kk) ==
    IF i >= kk THEN kk
    ELSE LET z1 == CAdd(CSqr(z), cc)
         IN  IF AbsGt2(z1) THEN i ELSE mandelbrot_loop(z1, cc, i + 1, kk)

\* a variant of the loop that tests abs(z) > 2 before updating z
RECURSIVE mandelbrot_loop_test_first(_, _, _, _)
mandelbrot_loop_test_first(z, cc, i, kk) ==
    IF i >= kk THEN kk
    ELSE IF AbsGt2(z) THEN i
    ELSE mandelbrot_loop_test_first(CAdd(CSqr(z), cc), cc, i + 1, kk)

\* mandelbrot with the test before the update
mandelbrot_test_first(cc, kk) == mandelbrot_loop_test_first(cc, cc, 0, kk)

\* the textbook variant that starts the orbit at 0 instead of c
mandelbrot_from_zero(cc, kk) == mandelbrot_loop(<<0, 0>>, cc, 0, kk)

\* mandelbrot(self, c, k): z = c, then the loop
mandelbrot(cc, kk) == mandelbrot_loop(cc, cc, 0, kk)

RECURSIVE julia_loop(_, _, _, _)
julia_loop(z, cc, i, kk) ==
    IF i >= kk THEN kk
    ELSE LET z1 == CAdd(CSqr(z), cc)
         IN  IF AbsGt2(z1) THEN i ELSE julia_loop(z1, cc, i + 1, kk)

\* a variant that reports the number of iterations performed (1-based)
julia_count(z, cc, kk) == julia_loop(z, cc, 0, kk) + 1

\* julia(self, z, c, k): the loop, started at the z it is given
julia(z, cc, kk) == julia_loop(z, cc, 0, kk)

\* ----------------------------------------------------------------- sampler
\* 2^e for e >= 0
RECURSIVE Pow2(_)
Pow2(e) == IF e <= 0 THEN 1 ELSE 2 * Pow2(e - 1)

\* v / np.exp(self._zoom): the zoom exponent e stands for e*ln 2, so the
\* divisor is 2^e (exact on the view bounds the model draws)
DivByExp(v, e) == IF e >= 0 THEN v \div Pow2(e) ELSE v * Pow2(0 - e)

\* np.linspace(start, stop, num) raises ValueError for a negative num
linspace_raises(num) == num < 0

\* np.linspace(start, stop, num): num evenly spaced values, both ends
\* included; <<start>> for num = 1 and the empty array for num = 0
linspace(start, stop, num) ==
    [i \in 1..num |->
        IF num = 1 THEN start
        ELSE start + ((i - 1) * (stop - start)) \div (num - 1)]

\* the fields of self that generate_fractal reads
Self ==
    [x_min |-> x_min, x_max |-> x_max, y_min |-> y_min, y_max |-> y_max,
     n |-> n, k |-> k, zoom |-> zoom, c |-> c, fractal_type |-> fractal_type]

\* a variant that takes the real part from the row and the imaginary part
\* from the column
generate_fractal_transposed(s) ==
    LET x == linspace(DivByExp(s.x_min, s.zoom), DivByExp(s.x_max, s.zoom), s.n)
        y == linspace(DivByExp(s.y_min, s.zoom), DivByExp(s.y_max, s.zoom), s.n)
    IN  [i \in 1..s.n |-> [j \in 1..s.n |->
            IF s.fractal_type = "mandelbrot"
            THEN mandelbrot(<<x[i], y[j]>>, s.k)
            ELSE julia(<<x[i], y[j]>>, s.c, s.k)]]

\* a variant that passes the resolution where the cap belongs
generate_fractal_cap_n(s) ==
    LET x == linspace(DivByExp(s.x_min, s.zoom), DivByExp(s.x_max, s.zoom), s.n)
        y == linspace(DivByExp(s.y_min, s.zoom), DivByExp(s.y_max, s.zoom), s.n)
    IN  [i \in 1..s.n |-> [j \in 1..s.n |->
            IF s.fractal_type = "mandelbrot"
            THEN mandelbrot(<<x[j], y[i]>>, s.n)
            ELSE julia(<<x[j], y[i]>>, s.c, s.n)]]

\* generate_fractal(self): image[i, j] is the kernel at x[j] + y[i]*1j
\* (the method is decorated with @jit; numba's object mode runs the Python
\* code as written, which is what is modelled)
generate_fractal(s) ==
    LET x == linspace(DivByExp(s.x_min, s.zoom), DivByExp(s.x_max, s.zoom), s.n)
        y == linspace(DivByExp(s.y_min, s.zoom), DivByExp(s.y_max, s.zoom), s.n)
    IN  [i \in 1..s.n |-> [j \in 1..s.n |->
            IF s.fractal_type = "mandelbrot"
            THEN mandelbrot(<<x[j], y[i]>>, s.k)
            ELSE julia(<<x[j], y[i]>>, s.c, s.k)]]

\* a variant with the two branches of np.where exchanged
where_clamp_swapped(img, t) ==
    [i \in DOMAIN img |-> [j \in DOMAIN img[i] |->
        IF img[i][j] > t THEN img[i][j] ELSE t]]

\* np.where(image > self._threshold, self._threshold, image)
where_clamp(img, t) ==
    [i \in DOMAIN img |-> [j \in DOMAIN img[i] |->
        IF img[i][j] > t THEN t ELSE img[i][j]]]

\* ------------------------------------------------------------- operations
\* a variant that keeps the zoomed bounds on the object
plot_fractal_keeps_zoomed_bounds ==
    IF linspace_raises(n)
    THEN /\ failure' = "ValueError"
         /\ UNCHANGED plotvars
         /\ UNCHANGED selfvars
    ELSE LET img == generate_fractal(Self)
             im  == IF threshold /= <<>> THEN where_clamp(img, threshold[1]) ELSE img
         IN  /\ field' = img
             /\ image' = im
             /\ rendered' = <<[k |-> k, zoom |-> zoom]>>
             /\ IF cbar = "None"
                THEN /\ cbar' = "colorbar"
                     /\ mappable' = <<im>>
                     /\ prev_clim' = prev_clim
                ELSE /\ cbar' = cbar
                     /\ prev_clim' = <<0, k>>
                     /\ mappable' = <<im>>
             /\ failure' = failure
             /\ x_min' = DivByExp(x_min, zoom)
             /\ x_max' = DivByExp(x_max, zoom)
             /\ y_min' = DivByExp(y_min, zoom)
             /\ y_max' = DivByExp(y_max, zoom)
             /\ UNCHANGED <<n, c, fractal_type, threshold>>

\* plot_fractal(self): sample, clamp when a threshold is set, hand the array
\* to imshow.  The first time, plt.colorbar(im) creates the colour bar on
\* the new image.  Afterwards set_clim(0, k) is applied to the colour bar's
\* mappable, still the image of the previous rendering, and update_normal(im)
\* then makes the new image the mappable.  An exception of generate_fractal
\* leaves self as it was.
plot_fractal ==
    IF linspace_raises(n)
    THEN /\ failure' = "ValueError"
         /\ UNCHANGED plotvars
         /\ UNCHANGED selfvars
    ELSE LET img == generate_fractal(Self)
             im  == IF threshold /= <<>> THEN where_clamp(img, threshold[1]) ELSE img
         IN  /\ field' = img
             /\ image' = im
             /\ rendered' = <<[k |-> k, zoom |-> zoom]>>
             /\ IF cbar = "None"
                THEN /\ cbar' = "colorbar"
                     /\ mappable' = <<im>>
                     /\ prev_clim' = prev_clim
                ELSE /\ cbar' = cbar
                     /\ prev_clim' = <<0, k>>
                     /\ mappable' = <<im>>
             /\ failure' = failure
             /\ UNCHANGED selfvars

\* update_plot(self)
update_plot == plot_fractal

\* a variant with the commented-out self.update_plot() enabled
update_iter_replots(val) ==
    /\ phase = "shown"
    /\ k' = val
    /\ lastOp' = "update_iter"
    /\ field' = generate_fractal([Self EXCEPT !.k = val])
    /\ image' = IF threshold /= <<>>
                THEN where_clamp(generate_fractal([Self EXCEPT !.k = val]), threshold[1])
                ELSE generate_fractal([Self EXCEPT !.k = val])
    /\ rendered' = <<[k |-> val, zoom |-> zoom]>>
    /\ cbar' = "colorbar"
    /\ mappable' = <<image'>>
    /\ prev_clim' = <<0, val>>
    /\ UNCHANGED <<selfvars, zoom, failure, phase, k0, probe>>

\* update_iter(self, val): the iteration slider's on_changed callback
update_iter(val) ==
    /\ phase = "shown"
    /\ k' = val
    /\ lastOp' = "update_iter"
    /\ UNCHANGED <<selfvars, plotvars, zoom, failure, phase, k0, probe>>

\* update_zoom(self, val): the zoom slider's on_changed callback
update_zoom(val) ==
    /\ phase = "shown"
    /\ zoom' = val
    /\ lastOp' = "update_zoom"
    /\ UNCHANGED <<selfvars, plotvars, k, failure, phase, k0, probe>>

\* update_button_clicked(self, event): the Update button's on_clicked callback
update_button_clicked ==
    /\ phase = "shown"
    /\ update_plot
    /\ lastOp' = "update_button_clicked"
    /\ UNCHANGED <<k, zoom, phase, k0, probe>>

\* show(self): wire the three callbacks, render once, enter the event loop;
\* an exception of the first rendering ends show() before the event loop
show ==
    /\ phase = "constructed"
    /\ update_plot
    /\ phase' = IF linspace_raises(n) THEN "failed" ELSE "shown"
    /\ lastOp' = "show"
    /\ UNCHANGED <<k, zoom, k0, probe>>

\* a direct call mandelbrot(c, k)
call_mandelbrot ==
    /\ phase = "idle"
    /\ probe.m = <<>>
    /\ probe' = [probe EXCEPT !.m = <<mandelbrot(probe.c, probe.k)>>]
    /\ UNCHANGED uivars

\* a direct call julia(z, c, k)
call_julia ==
    /\ phase = "idle"
    /\ probe.j = <<>>
    /\ probe' = [probe EXCEPT !.j = <<julia(probe.z, probe.c, probe.k)>>]
    /\ UNCHANGED uivars

\* ------------------------------------------------------------------ inputs
\* the values the iteration slider reports: valmin + m*valstep, cut at valmax
SliderIterValue(m) ==
    LET v == SliderIterMin + m * SliderIterStep
    IN  IF v >= SliderIterMax THEN SliderIterMax ELSE v

SliderIterValues == {SliderIterValue(m) : m \in 0..MaxSliderStep}

\* zoom exponents given to update_zoom, in units of ln 2
ZoomValues == {-1, 0, 1}

\* arguments of the constructor
XRanges == {<<-4, 4>>, <<-2, 2>>}
YRanges == {<<-2, 2>>, <<0, 4>>}
JuliaConstants == {<<0, 0>>, <<-1, 1>>}
Resolutions == {-1, 0, 1, 2, 3}
InitIters == {-1, 0, 6}
Thresholds == {<<>>, <<2>>, <<8>>}
FractalTypes == {"mandelbrot", "julia"}

\* arguments of the direct kernel calls
Coords == (0 - MaxCoord)..MaxCoord
Points == Coords \X Coords
Caps == {-1} \cup (0..MaxK)

NoProbe == [z |-> <<0, 0>>, c |-> <<0, 0>>, k |-> 0, m |-> <<>>, j |-> <<>>]

\* ---------------------------------------------------------- specifications
\* the state after Fractals.__init__
Init ==
    /\ \E xr \in XRanges : x_min = xr[1] /\ x_max = xr[2]
    /\ \E yr \in YRanges : y_min = yr[1] /\ y_max = yr[2]
    /\ n \in Resolutions
    /\ k \in InitIters
    /\ k0 = k
    /\ zoom = 0
    /\ c \in JuliaConstants
    /\ fractal_type \in FractalTypes
    /\ threshold \in Thresholds
    /\ cbar = "None"
    /\ mappable = <<>>
    /\ prev_clim = <<>>
    /\ field = <<>>
    /\ image = <<>>
    /\ rendered = <<>>
    /\ failure = "none"
    /\ phase = "constructed"
    /\ lastOp = "init"
    /\ probe = NoProbe

Next ==
    \/ show
    \/ \E val \in SliderIterValues : update_iter(val)
    \/ \E val \in ZoomValues : update_zoom(val)
    \/ update_button_clicked

Spec == Init /\ [][Next]_vars

\* the kernels called directly, on every point and cap of the bounds
InitKernel ==
    /\ x_min = 0 /\ x_max = 0 /\ y_min = 0 /\ y_max = 0
    /\ n = 0 /\ k = 0 /\ k0 = 0 /\ zoom = 0
    /\ c = <<0, 0>>
    /\ fractal_type = "mandelbrot"
    /\ threshold = <<>>
    /\ cbar = "None"
    /\ mappable = <<>>
    /\ prev_clim = <<>>
    /\ field = <<>>
    /\ image = <<>>
    /\ rendered = <<>>
    /\ failure = "none"
    /\ phase = "idle"
    /\ lastOp = "init"
    /\ probe \in [z : Points, c : Points, k : Caps, m : {<<>>}, j : {<<>>}]

NextKernel ==
    \/ call_mandelbrot
    \/ call_julia

SpecKernel == InitKernel /\ [][NextKernel]_vars

\* ================================================================== claims
\* the orbit of the claims: z after j applications of z <- z^2 + c from z0
RECURSIVE Orbit(_, _, _)
Orbit(z0, cc, j) ==
    IF j = 0 THEN z0
    ELSE LET p == Orbit(z0, cc, j - 1)
         IN  <<p[1] * p[1] - p[2] * p[2] + cc[1], 2 * p[1] * p[2] + cc[2]>>

\* |z| > 2
Diverged(z) == z[1] * z[1] + z[2] * z[2] > 4

Min(a, b) == IF a < b THEN a ELSE b

\* C1: for a positive cap k, mandelbrot(c, k) is the 0-based index r of the
\* first of the k iterations z <- z^2 + c (from z = c) after which |z| > 2,
\* and it is k when |z| <= 2 after each of the k iterations;
\* mandelbrot(0, 50) = 50 and mandelbrot(3+0i, 10) = 0.
C1_MandelbrotFirstEscape ==
    /\ (probe.m /= <<>> /\ probe.k >= 1) =>
          LET r == probe.m[1]
          IN  /\ r \in 0..probe.k
              /\ \A i \in 0..(r - 1) : ~Diverged(Orbit(probe.c, probe.c, i + 1))
              /\ r < probe.k => Diverged(Orbit(probe.c, probe.c, r + 1))
    /\ mandelbrot(<<0, 0>>, 50) = 50
    /\ mandelbrot(<<3, 0>>, 10) = 0

\* a call mandelbrot(c, k) that escaped after the first iteration and before the cap
C1_Witness ==
    /\ probe.m /= <<>>
    /\ probe.k >= 3
    /\ probe.m[1] = 1

\* C2: for a positive cap k, the value mandelbrot(c, k) returns and the value
\* julia(z0, c, k) returns are integers in 0..k.
C2_KernelRange ==
    /\ (probe.m /= <<>> /\ probe.k >= 1) => probe.m[1] \in 0..probe.k
    /\ (probe.j /= <<>> /\ probe.k >= 1) => probe.j[1] \in 0..probe.k

\* both kernels were called; julia ran to the cap, mandelbrot escaped at once
C2_Witness ==
    /\ probe.m /= <<>>
    /\ probe.j /= <<>>
    /\ probe.k >= 1
    /\ probe.j[1] = probe.k
    /\ probe.m[1] = 0

\* C3: julia(c, c, k) returns what mandelbrot(c, k) returns, for every c and k.
C3_JuliaAtCIsMandelbrot ==
    (probe.z = probe.c /\ probe.m /= <<>> /\ probe.j /= <<>>) => probe.j = probe.m

\* julia(c, c, k) and mandelbrot(c, k) both returned 1, below the cap
C3_Witness ==
    /\ probe.z = probe.c
    /\ probe.m /= <<>>
    /\ probe.j /= <<>>
    /\ probe.j[1] = 1
    /\ probe.k > 1

\* C4: for n >= 1, either kind and every cap k >= 0, the field generate_fractal
\* returned has n rows of n entries, each in 0..k for the k that was in force
\* when the sampler ran (a later slider move does not count).
C4_FieldShapeAndRange ==
    (rendered /= <<>> /\ n >= 1 /\ rendered[1].k >= 0) =>
        /\ Len(field) = n
        /\ \A i \in 1..n :
              /\ Len(field[i]) = n
              /\ \A j \in 1..n : field[i][j] \in 0..rendered[1].k

\* a 3 x 3 field holding both 0 and the cap it was sampled with, displayed
\* while the slider has since moved k below that cap
C4_Witness ==
    /\ rendered /= <<>>
    /\ n = 3
    /\ rendered[1].k > k
    /\ \E i \in 1..n, j \in 1..n : field[i][j] = rendered[1].k
    /\ \E i \in 1..n, j \in 1..n : field[i][j] = 0

\* C5: with a threshold t set, every entry handed to imshow is min(v, t) of
\* the sampled entry v, and clamping the displayed array again with t
\* returns it unchanged.
C5_ClampIsMinAndIdempotent ==
    (rendered /= <<>> /\ threshold /= <<>>) =>
        /\ DOMAIN image = DOMAIN field
        /\ \A i \in DOMAIN field :
              /\ DOMAIN image[i] = DOMAIN field[i]
              /\ \A j \in DOMAIN field[i] :
                    image[i][j] = Min(field[i][j], threshold[1])
        /\ where_clamp(image, threshold[1]) = image

\* a rendering in which the clamp lowered an entry and left another alone
C5_Witness ==
    /\ rendered /= <<>>
    /\ threshold /= <<>>
    /\ \E i \in DOMAIN field : \E j \in DOMAIN field[i] : image[i][j] < field[i][j]
    /\ \E i \in DOMAIN field : \E j \in DOMAIN field[i] :
          image[i][j] = field[i][j] /\ field[i][j] < threshold[1]

\* C6: a step of update_iter or update_zoom leaves the sampled field, the
\* displayed array, the colour bar and the rendered parameters as they were;
\* after show() and after every update_button_clicked the rendering used the
\* current k and the current zoom.
C6_StagedUntilApply ==
    /\ [][lastOp' \in {"update_iter", "update_zoom"} => UNCHANGED plotvars]_vars
    /\ []((lastOp \in {"show", "update_button_clicked"} /\ failure = "none") =>
            /\ rendered = <<[k |-> k, zoom |-> zoom]>>
            /\ field = generate_fractal(Self))

\* both sliders moved since the last rendering, nothing re-rendered yet
C6_Witness ==
    /\ lastOp = "update_zoom"
    /\ rendered /= <<>>
    /\ rendered[1].k /= k
    /\ rendered[1].zoom /= zoom

\* C7: sampling with k <= 0 or n <= 0 fails and produces no field; with
\* k > 0 and n > 0 it succeeds.
C7_RejectsNonPositive ==
    lastOp = "show" =>
        IF k <= 0 \/ n <= 0
        THEN failure /= "none" /\ rendered = <<>> /\ field = <<>>
        ELSE failure = "none" /\ rendered /= <<>>

\* C8: constructed with a threshold t, 1 <= t <= k, the object keeps
\* 1 <= t <= k and k >= 1 through every slider move and apply.
C8_ThresholdAtMostK ==
    (threshold /= <<>> /\ threshold[1] >= 1 /\ threshold[1] <= k0) =>
        (threshold[1] >= 1 /\ threshold[1] <= k /\ k >= 1)

\* C9: update_iter changes k and nothing else, update_zoom changes the zoom
\* exponent and nothing else, and an apply leaves the view bounds, n, k, zoom,
\* the Julia constant, the kind and the threshold unchanged.
C9_Frame ==
    [][/\ lastOp' = "update_iter" =>
             UNCHANGED <<selfvars, plotvars, zoom, failure, phase, k0>>
       /\ lastOp' = "update_zoom" =>
             UNCHANGED <<selfvars, plotvars, k, failure, phase, k0>>
       /\ lastOp' = "update_button_clicked" =>
             UNCHANGED <<selfvars, k, zoom>>]_vars

\* an apply that rendered a new field under a zoom and a k both changed
\* since construction
C9_Witness ==
    /\ lastOp = "update_button_clicked"
    /\ zoom /= 0
    /\ k /= k0
    /\ rendered = <<[k |-> k, zoom |-> zoom]>>

\* the kernel value the claim C10 gives entry (i, j), rows and columns from 0
C10_Entry(i, j) ==
    LET rk == rendered[1].k
        rz == rendered[1].zoom
        xs == linspace(DivByExp(x_min, rz), DivByExp(x_max, rz), n)
        ys == linspace(DivByExp(y_min, rz), DivByExp(y_max, rz), n)
        p  == <<xs[j + 1], ys[i + 1]>>
    IN  IF fractal_type = "mandelbrot" THEN mandelbrot(p, rk) ELSE julia(p, c, rk)

\* C10: entry (i, j) of the sampled field is the kernel at xs[j] + ys[i]*1j:
\* mandelbrot(p, k) for the Mandelbrot kind, julia(p, c, k) for the Julia kind.
C10_EntryIsKernelAtColumnRow ==
    (rendered /= <<>> /\ n >= 1) =>
        \A i \in 0..(n - 1), j \in 0..(n - 1) : field[i + 1][j + 1] = C10_Entry(i, j)

\* a sampled field that differs from its transpose
C10_Witness ==
    /\ rendered /= <<>>
    /\ n = 3
    /\ \E i \in 1..n, j \in 1..n : field[i][j] /= field[j][i]

====
